---- MODULE Spec2Model ----
(***************************************************************************)
(* Transactional core of the storefront backend: checkout (place_order),   *)
(* admin order creation, order status changes, cancellation, manual stock  *)
(* adjustment and coupon usage, over the tables variants, inventory_log,   *)
(* coupons, coupon_usage, orders and order_status_history.                 *)
(*                                                                         *)
(* Every request runs in its own database session.  A session reads rows   *)
(* with plain SELECTs (no FOR UPDATE, no version column), changes the      *)
(* loaded objects in memory, and its flush writes the changed columns as   *)
(* absolute values.  A request is therefore two steps: Begin (the rows it  *)
(* loads, as committed at that moment) and Finish (the handler's outcome   *)
(* computed from what it loaded, written and committed, or rolled back).   *)
(* Money is in whole rupees.                                               *)
(***************************************************************************)
EXTENDS Integers, Sequences, FiniteSets, TLC

VARIABLES
    products,              \* products table: id -> [status, base_price]
    variants,              \* product_variants: id -> [product_id, is_active, price, stock_quantity]
    inventory_log,         \* inventory_log rows in insertion order
    coupons,               \* coupons: id -> row
    coupon_usage,          \* coupon_usage rows in insertion order
    orders,                \* orders rows, order id = position
    order_status_history,  \* order_status_history rows in insertion (created_at) order
    now,                   \* wall clock read by validate_coupon
    sessions,              \* one database session per request
    outbox,                \* emails handed to the background thread pool, in order
    addresses,             \* addresses rows, address id = position
    engine                 \* the engine's settings: isolation level, autoflush

dbvars == <<products, variants, inventory_log, coupons, coupon_usage, orders,
            order_status_history>>
uservars == <<addresses, engine>>
vars == <<products, variants, inventory_log, coupons, coupon_usage, orders,
          order_status_history, now, sessions, outbox, addresses, engine>>

-----------------------------------------------------------------------------
(* Bounds of the model *)

MaxRequests == 2

MaxOrderRequests == 4

MaxCouponRequests == 3

MaxFulfilmentRequests == 3

MaxCatalogueRequests == 3

MaxAddressRequests == 3

MaxQuantity == 2

InitStock == 1

(* Python's None for nullable ids, codes, times and prices; `if x:` treats 0 alike *)
None == 0

(* a NULL numeric column, which is not a stored 0 *)
Null == -1

(* the truth value Python gives an optional number: None and 0 are false *)
Truthy(x) == x # Null /\ x # 0

Max(a, b) == IF a >= b THEN a ELSE b

Min(a, b) == IF a <= b THEN a ELSE b

Requests ==
    1..Max(Max(Max(MaxRequests, MaxFulfilmentRequests), Max(MaxOrderRequests, MaxCouponRequests)),
           Max(MaxCatalogueRequests, MaxAddressRequests))

ProductIds == {1, 2}

VariantIds == {1, 2}

UserIds == {1, 2}

CouponIds == {1}

Quantities == 1..MaxQuantity

OrderStatuses ==
    {"pending", "confirmed", "processing", "shipped", "delivered", "cancelled", "returned"}

FREE_SHIPPING_THRESHOLD == 5000

FLAT_SHIPPING_FEE == 200

-----------------------------------------------------------------------------
(* Helpers on sequences of rows *)

RECURSIVE SumChanges(_, _)
SumChanges(log, v) ==
    IF log = <<>> THEN 0
    ELSE (IF Head(log).variant_id = v THEN Head(log).quantity_change ELSE 0)
         + SumChanges(Tail(log), v)

-----------------------------------------------------------------------------
(* Rows *)

InventoryLog(variant_id, quantity_change, reason, reference_id) ==
    [variant_id |-> variant_id, quantity_change |-> quantity_change,
     reason |-> reason, reference_id |-> reference_id]

OrderItem(product_id, variant_id, quantity, unit_price) ==
    [product_id |-> product_id, variant_id |-> variant_id, quantity |-> quantity,
     unit_price |-> unit_price, total_price |-> unit_price * quantity]

OrderStatusHistory(order_id, status, note) ==
    [order_id |-> order_id, status |-> status, note |-> note]

CouponUsage(coupon_id, user_id, order_id) ==
    [coupon_id |-> coupon_id, user_id |-> user_id, order_id |-> order_id]

-----------------------------------------------------------------------------
(* The unit of work of one request: the objects it loaded (as it read them, *)
(* with its own in-memory changes) and the rows it added.                   *)

NewWork(snap) ==
    [ok |-> TRUE, error |-> "",
     products |-> snap.products, variants |-> snap.variants,
     coupons |-> snap.coupons, orders |-> snap.orders,
     logs |-> <<>>, usages |-> <<>>, history |-> <<>>,
     new_order |-> <<>>, subtotal |-> 0, order_items |-> <<>>,
     emails |-> <<>>,
     deleted_products |-> {}, deleted_variants |-> {}, new_variants |-> <<>>]

Fail_NotRaised(s, why) == [s EXCEPT !.error = why]

Fail(s, why) == [s EXCEPT !.ok = FALSE, !.error = why]

-----------------------------------------------------------------------------
(* order_service.place_order: the loop over the request's lines *)

ProductUnavailable_MissingOnly(prods, product_id) == product_id \notin DOMAIN prods

ProductUnavailable(prods, product_id) ==
    product_id \notin DOMAIN prods \/ prods[product_id].status # "active"

VariantUnavailable(vs, variant_id) ==
    variant_id \notin DOMAIN vs \/ ~vs[variant_id].is_active

InsufficientStock_OffByOne(variant, quantity) == variant.stock_quantity + 1 < quantity

InsufficientStock(variant, quantity) == variant.stock_quantity < quantity

UnitPrice(product, variant) ==
    IF variant.price # None THEN variant.price ELSE product.base_price

DeductInventory_LogOnly(s, variant_id, quantity, reference_id) ==
    [s EXCEPT !.logs = Append(@, InventoryLog(variant_id, -quantity, "order_placed",
                                              reference_id))]

DeductInventory(s, variant_id, quantity, reference_id) ==
    [s EXCEPT !.variants[variant_id].stock_quantity = @ - quantity,
              !.logs = Append(@, InventoryLog(variant_id, -quantity, "order_placed",
                                              reference_id))]

AddLine(s, product_id, variant_id, quantity, unit_price) ==
    [s EXCEPT !.subtotal = @ + unit_price * quantity,
              !.order_items = Append(@, OrderItem(product_id, variant_id, quantity,
                                                  unit_price)),
              !.products[product_id].total_sold = @ + quantity]

PlaceOrderItem(s, cart_item) ==
    LET pid == cart_item.product_id
        vid == cart_item.variant_id
        qty == cart_item.quantity
    IN  IF ProductUnavailable(s.products, pid) THEN Fail(s, "product_unavailable")
        ELSE IF vid = None THEN AddLine(s, pid, None, qty, s.products[pid].base_price)
        ELSE IF VariantUnavailable(s.variants, vid) THEN Fail(s, "variant_unavailable")
        ELSE IF InsufficientStock(s.variants[vid], qty) THEN Fail(s, "insufficient_stock")
        ELSE AddLine(DeductInventory(s, vid, qty, None), pid, vid, qty,
                     UnitPrice(s.products[pid], s.variants[vid]))

RECURSIVE PlaceOrderItems(_, _)
PlaceOrderItems(s, items) ==
    IF items = <<>> \/ ~s.ok THEN s
    ELSE PlaceOrderItems(PlaceOrderItem(s, Head(items)), Tail(items))

-----------------------------------------------------------------------------
(* coupon_service *)

UsageCount(usage, coupon_id, user_id) ==
    Cardinality({i \in 1..Len(usage) :
                    usage[i].coupon_id = coupon_id /\ usage[i].user_id = user_id})

(* subtotal * (value / 100): exact in whole rupees for the prices of this model, *)
(* which are multiples of 100                                                    *)
Discount(coupon, subtotal) ==
    LET discount ==
            IF coupon.type = "percentage"
            THEN LET d == (subtotal * coupon.value) \div 100
                 IN  IF Truthy(coupon.max_discount) THEN Min(d, coupon.max_discount) ELSE d
            ELSE coupon.value
    IN  Min(discount, subtotal)

Rejected(why) ==
    [ok |-> FALSE, error |-> why, coupon_id |-> None, discount_amount |-> 0]

UsageLimitReached(coupon) ==
    Truthy(coupon.usage_limit) /\ coupon.used_count >= coupon.usage_limit

CustomerLimitReached(coupon, usage, coupon_id, user_id) ==
    user_id # None /\ UsageCount(usage, coupon_id, user_id) >= coupon.usage_per_customer

validate_coupon(cs, usage, code, user_id, subtotal, t) ==
    IF code \notin DOMAIN cs \/ ~cs[code].is_active THEN Rejected("invalid_code")
    ELSE LET coupon == cs[code]
         IN  IF coupon.starts_at # None /\ coupon.starts_at > t
                THEN Rejected("not_yet_active")
             ELSE IF coupon.expires_at # None /\ coupon.expires_at < t
                THEN Rejected("expired")
             ELSE IF UsageLimitReached(coupon) THEN Rejected("usage_limit_reached")
             ELSE IF CustomerLimitReached(coupon, usage, code, user_id)
                THEN Rejected("already_used")
             ELSE IF coupon.min_order_amount > subtotal THEN Rejected("below_minimum")
             ELSE [ok |-> TRUE, error |-> "", coupon_id |-> code,
                   discount_amount |-> Discount(coupon, subtotal)]

(* order_id None stands for the order this unit of work is creating; its id is *)
(* assigned when the order row is inserted                                      *)
record_coupon_usage(s, coupon_id, user_id) ==
    LET added == [s EXCEPT !.usages = Append(@, CouponUsage(coupon_id, user_id, None))]
    IN  IF coupon_id \in DOMAIN s.coupons
        THEN [added EXCEPT !.coupons[coupon_id].used_count = @ + 1]
        ELSE added

-----------------------------------------------------------------------------
(* order_service.place_order *)

ShippingCost_StrictlyAbove(subtotal) ==
    IF subtotal > FREE_SHIPPING_THRESHOLD THEN 0 ELSE FLAT_SHIPPING_FEE

ShippingCost(subtotal) ==
    IF subtotal >= FREE_SHIPPING_THRESHOLD THEN 0 ELSE FLAT_SHIPPING_FEE

Order(order_number, user_id, subtotal, shipping_cost, discount_amount, total, coupon_id, items) ==
    [order_number |-> order_number, user_id |-> user_id, status |-> "pending", payment_status |-> "pending",
     subtotal |-> subtotal, shipping_cost |-> shipping_cost,
     discount_amount |-> discount_amount, tax_amount |-> 0, total |-> total,
     coupon_id |-> coupon_id, cancelled_at |-> None, items |-> items,
     tracking_number |-> None, tracking_url |-> None, admin_note |-> None]

(* the customer's confirmation and the admin's alert; request is filled in *)
(* when they are handed to the pool and stands for the order number        *)
_send_order_confirmation(user_id) ==
    <<[request |-> None, to |-> user_id, template |-> "order_confirmation"],
      [request |-> None, to |-> "admin", template |-> "new_order_admin"]>>

place_order(snap, user_id, data, t) ==
    LET s == PlaceOrderItems(NewWork(snap), data.items)
        coupon_info ==
            IF data.coupon_code # None
            THEN validate_coupon(snap.coupons, snap.coupon_usage, data.coupon_code,
                                 user_id, s.subtotal, t)
            ELSE [ok |-> TRUE, error |-> "", coupon_id |-> None, discount_amount |-> 0]
        shipping_cost == ShippingCost(s.subtotal)
        total == s.subtotal - coupon_info.discount_amount + shipping_cost
        created ==
            [s EXCEPT !.new_order = <<Order(data.order_number, user_id, s.subtotal, shipping_cost,
                                            coupon_info.discount_amount, total,
                                            coupon_info.coupon_id, s.order_items)>>,
                      !.history = <<OrderStatusHistory(None, "pending", "Order placed")>>,
                      !.emails = _send_order_confirmation(user_id)]
    IN  IF ~s.ok THEN s
        ELSE IF ~coupon_info.ok THEN Fail(s, coupon_info.error)
        ELSE IF coupon_info.coupon_id # None /\ user_id # None
             THEN record_coupon_usage(created, coupon_info.coupon_id, user_id)
             ELSE created

-----------------------------------------------------------------------------
(* admin/orders.admin_create_order *)

AdminCreateItem(s, item_data) ==
    LET pid == item_data.product_id
        vid == item_data.variant_id
        qty == item_data.quantity
    IN  IF pid # None
        THEN IF pid \notin DOMAIN s.products THEN Fail(s, "product_not_found")
             ELSE IF vid = None
                THEN AddLine(s, pid, None, qty, s.products[pid].base_price)
             ELSE IF vid \notin DOMAIN s.variants THEN Fail(s, "variant_not_found")
             ELSE IF InsufficientStock(s.variants[vid], qty)
                THEN Fail(s, "insufficient_stock")
             ELSE AddLine(DeductInventory(s, vid, qty, None), pid, vid, qty,
                          UnitPrice(s.products[pid], s.variants[vid]))
        ELSE IF item_data.custom_price # None
        THEN [s EXCEPT !.subtotal = @ + item_data.custom_price * qty,
                       !.order_items = Append(@, OrderItem(None, None, qty,
                                                           item_data.custom_price))]
        ELSE Fail(s, "item_needs_product_or_custom")

RECURSIVE AdminCreateItems(_, _)
AdminCreateItems(s, items) ==
    IF items = <<>> \/ ~s.ok THEN s
    ELSE AdminCreateItems(AdminCreateItem(s, Head(items)), Tail(items))

AdminTotal(subtotal, discount_amount, shipping_cost) ==
    Max(subtotal - discount_amount + shipping_cost, 0)

admin_create_order(snap, data) ==
    LET s == AdminCreateItems(NewWork(snap), data.items)
    IN  IF ~s.ok THEN s
        ELSE [s EXCEPT
                !.new_order = <<[Order(data.order_number, data.customer_id, s.subtotal,
                                       data.shipping_cost, data.discount_amount,
                                       AdminTotal(s.subtotal, data.discount_amount,
                                                  data.shipping_cost),
                                       None, s.order_items)
                                    EXCEPT !.admin_note =
                                        IF "admin_note" \in DOMAIN data
                                        THEN data.admin_note ELSE None]>>,
                !.history = <<OrderStatusHistory(None, "pending",
                                                 "Order created by admin")>>]

-----------------------------------------------------------------------------
(* order_service.cancel_order (the customer's cancel) *)

Cancellable_AlsoProcessing(status) == status \in {"pending", "confirmed", "processing"}

Cancellable(status) == status \in {"pending", "confirmed"}

RestoreItem(s, order_id, item) ==
    IF item.variant_id # None /\ item.variant_id \in DOMAIN s.variants
    THEN [s EXCEPT !.variants[item.variant_id].stock_quantity = @ + item.quantity,
                   !.logs = Append(@, InventoryLog(item.variant_id, item.quantity,
                                                   "order_cancelled", order_id))]
    ELSE s

RECURSIVE RestoreInventory(_, _, _)
RestoreInventory(s, order_id, items) ==
    IF items = <<>> THEN s
    ELSE RestoreInventory(RestoreItem(s, order_id, Head(items)), order_id, Tail(items))

(* get_order_by_number: the order with that number, of that user *)
OrderOfUser(os, order_id, user_id) ==
    order_id \in DOMAIN os /\ (user_id # None => os[order_id].user_id = user_id)

cancel_order_Refunds(snap, order_id, user_id, t) ==
    LET s == NewWork(snap)
    IN  IF ~OrderOfUser(s.orders, order_id, user_id) THEN Fail(s, "order_not_found")
        ELSE IF ~Cancellable(s.orders[order_id].status) THEN Fail(s, "cannot_be_cancelled")
        ELSE [RestoreInventory(s, order_id, s.orders[order_id].items) EXCEPT
                !.orders[order_id].status = "cancelled",
                !.orders[order_id].cancelled_at = t,
                !.orders[order_id].total = 0,
                !.history = Append(@, OrderStatusHistory(order_id, "cancelled",
                                                         "Cancelled by customer"))]

cancel_order(snap, order_id, user_id, t) ==
    LET s == NewWork(snap)
    IN  IF ~OrderOfUser(s.orders, order_id, user_id) THEN Fail(s, "order_not_found")
        ELSE IF ~Cancellable(s.orders[order_id].status) THEN Fail(s, "cannot_be_cancelled")
        ELSE LET marked == [s EXCEPT !.orders[order_id].status = "cancelled",
                                     !.orders[order_id].cancelled_at = t]
                 restored == RestoreInventory(marked, order_id, s.orders[order_id].items)
             IN  [restored EXCEPT
                    !.history = Append(@, OrderStatusHistory(order_id, "cancelled",
                                                             "Cancelled by customer"))]

-----------------------------------------------------------------------------
(* admin/inventory.adjust_stock *)

AdjustmentRejected(new_stock) == new_stock < 0

adjust_stock(snap, variant_id, data) ==
    LET s == NewWork(snap)
    IN  IF variant_id \notin DOMAIN s.variants THEN Fail(s, "variant_not_found")
        ELSE LET previous_stock == s.variants[variant_id].stock_quantity
                 new_stock == previous_stock + data.quantity_change
             IN  IF AdjustmentRejected(new_stock) THEN Fail(s, "insufficient_stock")
                 ELSE [s EXCEPT !.variants[variant_id].stock_quantity = new_stock,
                                !.logs = Append(@, InventoryLog(variant_id,
                                                                data.quantity_change,
                                                                data.reason, None))]

-----------------------------------------------------------------------------
(* admin/orders.update_order_status and mark_order_paid *)

(* the handler checks nothing; the orders.status column is an Enum and the *)
(* database refuses any other value                                         *)
StatusAccepted(current, new_status) == new_status \in OrderStatuses

update_order_status_NoHistory(snap, order_id, data) ==
    LET s == NewWork(snap)
    IN  IF order_id \notin DOMAIN s.orders THEN Fail(s, "order_not_found")
        ELSE [s EXCEPT !.orders[order_id].status = data.status]

update_order_status(snap, order_id, data) ==
    LET s == NewWork(snap)
    IN  IF order_id \notin DOMAIN s.orders THEN Fail(s, "order_not_found")
        ELSE IF ~StatusAccepted(s.orders[order_id].status, data.status)
             THEN Fail(s, "not_a_status")
        ELSE [s EXCEPT !.orders[order_id].status = data.status,
                       !.history = Append(@, OrderStatusHistory(order_id, data.status,
                                                                data.note))]

mark_order_paid(snap, order_id) ==
    LET s == NewWork(snap)
    IN  IF order_id \notin DOMAIN s.orders THEN Fail(s, "order_not_found")
        ELSE [s EXCEPT !.orders[order_id].payment_status = "paid",
                       !.history = Append(@, OrderStatusHistory(order_id,
                                                                s.orders[order_id].status,
                                                                "Payment marked as paid"))]

-----------------------------------------------------------------------------
(* admin/orders.update_order_tracking and update_order_note *)

update_order_tracking_AlsoShips(snap, order_id, data) ==
    LET s == NewWork(snap)
    IN  IF order_id \notin DOMAIN s.orders THEN Fail(s, "order_not_found")
        ELSE [s EXCEPT !.orders[order_id].tracking_number = data.tracking_number,
                       !.orders[order_id].status = "shipped"]

update_order_tracking(snap, order_id, data) ==
    LET s == NewWork(snap)
    IN  IF order_id \notin DOMAIN s.orders THEN Fail(s, "order_not_found")
        ELSE [s EXCEPT !.orders[order_id].tracking_number = data.tracking_number,
                       !.orders[order_id].tracking_url =
                            IF data.tracking_url # None THEN data.tracking_url ELSE @]

update_order_note(snap, order_id, data) ==
    LET s == NewWork(snap)
    IN  IF order_id \notin DOMAIN s.orders THEN Fail(s, "order_not_found")
        ELSE [s EXCEPT !.orders[order_id].admin_note = data.admin_note]

-----------------------------------------------------------------------------
(* admin/coupons.update_coupon: data holds the fields the request sets *)

update_coupon(snap, coupon_id, data) ==
    LET s == NewWork(snap)
    IN  IF coupon_id \notin DOMAIN s.coupons THEN Fail(s, "coupon_not_found")
        ELSE [s EXCEPT !.coupons[coupon_id] =
                    [f \in DOMAIN @ |-> IF f \in DOMAIN data THEN data[f] ELSE @[f]]]

-----------------------------------------------------------------------------
(* product_service.update_product and delete_product.  data holds the fields *)
(* the request sets; options_given is a request that carries options, which  *)
(* deletes the product's variants and recreates those the request lists      *)

ProductVariant(product_id, var_data) ==
    [product_id |-> product_id, is_active |-> TRUE, price |-> var_data.price,
     stock_quantity |-> var_data.stock_quantity]

VariantsOf(vs, product_id) == {v \in DOMAIN vs : vs[v].product_id = product_id}

update_product(snap, product_id, data) ==
    LET s == NewWork(snap)
    IN  IF product_id \notin DOMAIN s.products THEN Fail(s, "product_not_found")
        ELSE LET updated ==
                    [s EXCEPT !.products[product_id] =
                        [f \in DOMAIN @ |->
                            IF f \in DOMAIN data.fields THEN data.fields[f] ELSE @[f]]]
             IN  IF ~data.options_given THEN updated
                 ELSE [updated EXCEPT
                        !.deleted_variants = VariantsOf(s.variants, product_id),
                        !.new_variants =
                            [i \in 1..Len(data.variants) |->
                                ProductVariant(product_id, data.variants[i])]]

delete_product(snap, product_id) ==
    LET s == NewWork(snap)
    IN  IF product_id \notin DOMAIN s.products THEN Fail(s, "product_not_found")
        ELSE [s EXCEPT !.deleted_products = {product_id},
                       !.deleted_variants = VariantsOf(s.variants, product_id)]

-----------------------------------------------------------------------------
(* The session: what a request loads, and what its flush writes *)

NoRows == <<>>

Snapshot(tables) ==
    [products |-> IF "products" \in tables THEN products ELSE NoRows,
     variants |-> IF "variants" \in tables THEN variants ELSE NoRows,
     coupons |-> IF "coupons" \in tables THEN coupons ELSE NoRows,
     coupon_usage |-> IF "coupon_usage" \in tables THEN coupon_usage ELSE NoRows,
     orders |-> IF "orders" \in tables THEN orders ELSE NoRows]

(* UPDATE of a loaded row: the columns the session changed, as absolute values *)
MergeRow(committed, loaded, changed) ==
    [f \in DOMAIN committed |-> IF changed[f] # loaded[f] THEN changed[f] ELSE committed[f]]

MergeTable(committed, loaded, changed) ==
    [id \in DOMAIN committed |->
        IF id \in DOMAIN changed
        THEN MergeRow(committed[id], loaded[id], changed[id])
        ELSE committed[id]]

WithOrderId(rows, order_id) ==
    [i \in 1..Len(rows) |->
        IF rows[i].order_id = None THEN [rows[i] EXCEPT !.order_id = order_id]
        ELSE rows[i]]

(* the variants a commit removes: those the session deleted, and by         *)
(* product_variants.product_id ON DELETE CASCADE those of a deleted product *)
GoneVariants(s) ==
    s.deleted_variants
        \cup {v \in DOMAIN variants : variants[v].product_id \in s.deleted_products}

(* product_variants.id AUTO_INCREMENT: the ids after those ever given out *)
RECURSIVE VariantsCreated(_)
VariantsCreated(n) ==
    IF n = 0 THEN 0
    ELSE (IF sessions[n].op = "update_product" /\ sessions[n].outcome = "ok"
          THEN Len(sessions[n].data.variants) ELSE 0)
         + VariantsCreated(n - 1)

NextVariantId == Cardinality(VariantIds) + VariantsCreated(Cardinality(Requests)) + 1

(* order_items.product_id and variant_id ON DELETE SET NULL *)
SetNullItem(item, gone_products, gone_variants) ==
    [item EXCEPT !.product_id = IF @ \in gone_products THEN None ELSE @,
                 !.variant_id = IF @ \in gone_variants THEN None ELSE @]

SetNull(os, gone_products, gone_variants) ==
    [o \in DOMAIN os |->
        [os[o] EXCEPT !.items =
            [i \in DOMAIN @ |-> SetNullItem(@[i], gone_products, gone_variants)]]]

(* inventory_log.variant_id ON DELETE CASCADE *)
CascadeLog(log, gone_variants) ==
    SelectSeq(log, LAMBDA e : e.variant_id \notin gone_variants)

Flush(snap, s) ==
    LET order_id == Len(orders) + 1
        gone == GoneVariants(s)
        kept == DOMAIN variants \ gone
        merged == MergeTable(variants, snap.variants, s.variants)
        first == NextVariantId
        created == first..(first + Len(s.new_variants) - 1)
    IN  /\ products' = [p \in DOMAIN products \ s.deleted_products |->
                            MergeTable(products, snap.products, s.products)[p]]
        /\ variants' = [v \in kept \cup created |->
                            IF v \in kept THEN merged[v]
                            ELSE s.new_variants[v - first + 1]]
        /\ coupons' = MergeTable(coupons, snap.coupons, s.coupons)
        /\ orders' = SetNull(MergeTable(orders, snap.orders, s.orders) \o s.new_order,
                             s.deleted_products, gone)
        /\ inventory_log' = CascadeLog(inventory_log \o s.logs, gone)
        /\ coupon_usage' = coupon_usage \o WithOrderId(s.usages, order_id)
        /\ order_status_history' =
                order_status_history \o WithOrderId(s.history, order_id)

(* get_db: commit when the handler returns, roll back when it raises *)
Rollback == UNCHANGED dbvars

(* overlaps: the requests that were in flight at some moment of this one *)
Idle == [pc |-> "new", op |-> "", data |-> <<>>, snap |-> <<>>,
         outcome |-> "none", error |-> "", overlaps |-> {}]

InFlight == {q \in Requests : sessions[q].pc \in {"open", "returned", "unset"}}

Begin(r, op, data, tables) ==
    /\ sessions[r].pc = "new"
    /\ r > 1 => sessions[r - 1].pc # "new"
    /\ sessions' = [q \in Requests |->
            IF q = r
            THEN [pc |-> "open", op |-> op, data |-> data, snap |-> Snapshot(tables),
                  outcome |-> "none", error |-> "", overlaps |-> InFlight]
            ELSE IF q \in InFlight
            THEN [sessions[q] EXCEPT !.overlaps = @ \cup {r}]
            ELSE sessions[q]]
    /\ UNCHANGED <<dbvars, now, outbox, uservars>>

(* the 8 random digits of an order number: a request whose input names none *)
(* draws a number that no other request draws                               *)
_generate_order_number(r, data) ==
    IF "order_number" \in DOMAIN data THEN data.order_number ELSE r

(* INSERT of the order row under the unique index on order_number: a number *)
(* that an order already has raises out of db.flush()                       *)
InsertOrder(s) ==
    IF /\ s.ok /\ s.new_order # <<>>
       /\ \E o \in DOMAIN orders : orders[o].order_number = s.new_order[1].order_number
    THEN [Fail(s, "duplicate_order_number") EXCEPT !.emails = <<>>]
    ELSE s

send_email_background(r, emails) ==
    [i \in 1..Len(emails) |-> [emails[i] EXCEPT !.request = r]]

(* a row the session changed or refers to was deleted by a commit since it *)
(* was loaded: the UPDATE matches no row (StaleDataError) or the INSERT     *)
(* breaks a foreign key (IntegrityError), and the request fails             *)
RowsGone(snap, s) ==
    \/ \E p \in DOMAIN s.products :
            p \notin DOMAIN products /\ s.products[p] # snap.products[p]
    \/ \E v \in DOMAIN s.variants :
            v \notin DOMAIN variants /\ s.variants[v] # snap.variants[v]
    \/ \E i \in 1..Len(s.logs) : s.logs[i].variant_id \notin DOMAIN variants
    \/ \E i \in 1..Len(s.order_items) :
            \/ s.order_items[i].product_id \notin DOMAIN products \cup {None}
            \/ s.order_items[i].variant_id \notin DOMAIN variants \cup {None}

FlushErrors(snap, s) ==
    IF s.ok /\ RowsGone(snap, s)
    THEN [Fail(s, "stale_data") EXCEPT !.emails = <<>>]
    ELSE s

Finish(r, work) ==
    /\ LET s == FlushErrors(sessions[r].snap, work)
       IN  /\ IF s.ok THEN Flush(sessions[r].snap, s) ELSE Rollback
           /\ sessions' = [sessions EXCEPT ![r].pc = "done",
                                           ![r].outcome = IF s.ok THEN "ok" ELSE "rejected",
                                           ![r].error = s.error]
           /\ outbox' = outbox \o send_email_background(r, s.emails)
    /\ UNCHANGED <<now, uservars>>

Open(r, op) == sessions[r].pc = "open" /\ sessions[r].op = op

-----------------------------------------------------------------------------
(* Requests *)

PlaceOrderBegin(r, user_id, data) ==
    Begin(r, "place_order", [user_id |-> user_id, items |-> data.items,
                             coupon_code |-> data.coupon_code,
                             order_number |-> _generate_order_number(r, data),
                             flushed |-> 0],
          {"products", "variants", "coupons", "coupon_usage"})

PlaceOrderFinish(r) ==
    /\ Open(r, "place_order")
    /\ Finish(r, InsertOrder(place_order(sessions[r].snap, sessions[r].data.user_id,
                                         sessions[r].data, now)))

(* place_order up to its return: the emails are rendered and handed to the pool *)
(* before the handler returns; rendered = FALSE is a template that fails to    *)
(* render, which raises out of the handler                                     *)
PlaceOrderReturn(r, rendered) ==
    /\ Open(r, "place_order")
    /\ LET s == InsertOrder(place_order(sessions[r].snap, sessions[r].data.user_id,
                                        sessions[r].data, now))
       IN  IF ~s.ok THEN Finish(r, s)
           ELSE IF ~rendered
                THEN Finish(r, [Fail(s, "email_render_failed") EXCEPT !.emails = <<>>])
           ELSE /\ sessions' = [sessions EXCEPT ![r].pc = "returned"]
                /\ outbox' = outbox \o send_email_background(r, s.emails)
                /\ UNCHANGED <<dbvars, now, uservars>>

(* get_db after the handler returned: the commit *)
PlaceOrderCommit(r) ==
    /\ sessions[r].pc = "returned"
    /\ LET s == place_order(sessions[r].snap, sessions[r].data.user_id,
                            sessions[r].data, now)
       IN  /\ Flush(sessions[r].snap, s)
           /\ sessions' = [sessions EXCEPT ![r].pc = "done", ![r].outcome = "ok"]
    /\ UNCHANGED <<now, outbox, uservars>>

AdminCreateOrderBegin(r, data) ==
    Begin(r, "admin_create_order",
          [items |-> data.items, customer_id |-> data.customer_id,
           discount_amount |-> data.discount_amount,
           shipping_cost |-> data.shipping_cost,
           order_number |-> _generate_order_number(r, data)],
          {"products", "variants"})

AdminCreateOrderFinish(r) ==
    /\ Open(r, "admin_create_order")
    /\ Finish(r, InsertOrder(admin_create_order(sessions[r].snap, sessions[r].data)))

CancelOrderBegin(r, order_id, user_id) ==
    Begin(r, "cancel_order", [order_id |-> order_id, user_id |-> user_id],
          {"orders", "variants"})

CancelOrderFinish(r) ==
    /\ Open(r, "cancel_order")
    /\ Finish(r, cancel_order(sessions[r].snap, sessions[r].data.order_id,
                              sessions[r].data.user_id, now))

AdjustStockBegin(r, variant_id, data) ==
    Begin(r, "adjust_stock", [variant_id |-> variant_id,
                              quantity_change |-> data.quantity_change,
                              reason |-> data.reason],
          {"variants"})

AdjustStockFinish(r) ==
    /\ Open(r, "adjust_stock")
    /\ Finish(r, adjust_stock(sessions[r].snap, sessions[r].data.variant_id,
                              sessions[r].data))

UpdateOrderStatusBegin(r, order_id, data) ==
    Begin(r, "update_order_status", [order_id |-> order_id, status |-> data.status,
                                     note |-> data.note],
          {"orders"})

UpdateOrderStatusFinish(r) ==
    /\ Open(r, "update_order_status")
    /\ Finish(r, update_order_status(sessions[r].snap, sessions[r].data.order_id,
                                     sessions[r].data))

MarkOrderPaidBegin(r, order_id) ==
    Begin(r, "mark_order_paid", [order_id |-> order_id], {"orders"})

MarkOrderPaidFinish(r) ==
    /\ Open(r, "mark_order_paid")
    /\ Finish(r, mark_order_paid(sessions[r].snap, sessions[r].data.order_id))

UpdateOrderTrackingBegin(r, order_id, data) ==
    Begin(r, "update_order_tracking",
          [order_id |-> order_id, tracking_number |-> data.tracking_number,
           tracking_url |-> data.tracking_url], {"orders"})

UpdateOrderTrackingFinish(r) ==
    /\ Open(r, "update_order_tracking")
    /\ Finish(r, update_order_tracking(sessions[r].snap, sessions[r].data.order_id,
                                       sessions[r].data))

UpdateOrderNoteBegin(r, order_id, data) ==
    Begin(r, "update_order_note",
          [order_id |-> order_id, admin_note |-> data.admin_note], {"orders"})

UpdateOrderNoteFinish(r) ==
    /\ Open(r, "update_order_note")
    /\ Finish(r, update_order_note(sessions[r].snap, sessions[r].data.order_id,
                                   sessions[r].data))

UpdateProductBegin(r, product_id, data) ==
    Begin(r, "update_product",
          [product_id |-> product_id, fields |-> data.fields,
           options_given |-> data.options_given, variants |-> data.variants],
          {"products", "variants"})

UpdateProductFinish(r) ==
    /\ Open(r, "update_product")
    /\ Finish(r, update_product(sessions[r].snap, sessions[r].data.product_id,
                                sessions[r].data))

DeleteProductBegin(r, product_id) ==
    Begin(r, "delete_product", [product_id |-> product_id], {"products", "variants"})

DeleteProductFinish(r) ==
    /\ Open(r, "delete_product")
    /\ Finish(r, delete_product(sessions[r].snap, sessions[r].data.product_id))

UpdateCouponBegin(r, coupon_id, data) ==
    Begin(r, "update_coupon", [coupon_id |-> coupon_id, fields |-> data], {"coupons"})

UpdateCouponFinish(r) ==
    /\ Open(r, "update_coupon")
    /\ Finish(r, update_coupon(sessions[r].snap, sessions[r].data.coupon_id,
                               sessions[r].data.fields))

-----------------------------------------------------------------------------
(* users.create_address, update_address and set_default_address, statement  *)
(* by statement.  The handlers run `UPDATE addresses SET is_default = false  *)
(* WHERE user_id = :u` and then insert or update their own row at the flush. *)
(* The UPDATE locks the rows it matches until the commit, so another UPDATE  *)
(* that matches one of them waits; under REPEATABLE READ it also locks the   *)
(* index range of the user against inserts of other transactions (next-key   *)
(* locks), under READ COMMITTED it does not.  The isolation level is set     *)
(* where the engine is created and by the server.                            *)

IsolationLevels == {"READ COMMITTED", "REPEATABLE READ"}

Address(user_id, request) ==
    [user_id |-> user_id, label |-> request.label, is_default |-> request.is_default]

AddressesOf(user_id) == {a \in DOMAIN addresses : addresses[a].user_id = user_id}

(* select(Address).where(id == address_id, user_id == current_user.id) *)
AddressFound(address_id, user_id) == address_id \in AddressesOf(user_id)

(* the request sets the default flag: `if request.is_default`, *)
(* `if update_data.get("is_default")`, or set_default_address  *)
WantsDefault(s) ==
    CASE s.op = "create_address" -> s.data.request.is_default
      [] s.op = "update_address" ->
            "is_default" \in DOMAIN s.data.request /\ s.data.request.is_default
      [] s.op = "set_default_address" -> TRUE
      [] OTHER -> FALSE

AddressOps == {"create_address", "update_address", "set_default_address"}

(* the rows a transaction has locked with its UPDATE and not yet released *)
RowLocks(q) == IF sessions[q].pc = "unset" THEN sessions[q].data.matched ELSE {}

(* another transaction holds the range of the user's rows against inserts *)
RangeLocked(r, user_id) ==
    /\ engine.isolation_level = "REPEATABLE READ"
    /\ \E q \in Requests \ {r} :
            sessions[q].pc = "unset" /\ sessions[q].data.user_id = user_id

CreateAddressBegin(r, user_id, request) ==
    Begin(r, "create_address",
          [user_id |-> user_id, request |-> request, found |-> TRUE, matched |-> {}], {})

UpdateAddressBegin(r, user_id, address_id, request) ==
    Begin(r, "update_address",
          [user_id |-> user_id, address_id |-> address_id, request |-> request,
           found |-> AddressFound(address_id, user_id),
           loaded |-> IF AddressFound(address_id, user_id)
                      THEN addresses[address_id] ELSE <<>>,
           matched |-> {}], {})

SetDefaultAddressBegin(r, user_id, address_id) ==
    Begin(r, "set_default_address",
          [user_id |-> user_id, address_id |-> address_id,
           found |-> AddressFound(address_id, user_id), matched |-> {}], {})

(* update(Address).where(user_id == current_user.id).values(is_default=False) *)
UnsetDefaults(r) ==
    /\ sessions[r].pc = "open" /\ sessions[r].op \in AddressOps
    /\ sessions[r].data.found /\ WantsDefault(sessions[r])
    /\ \A q \in Requests \ {r} : RowLocks(q) \cap AddressesOf(sessions[r].data.user_id) = {}
    /\ sessions' = [sessions EXCEPT ![r].pc = "unset",
                                    ![r].data.matched = AddressesOf(sessions[r].data.user_id)]
    /\ UNCHANGED <<dbvars, now, outbox, uservars>>

Unset(rows, matched) ==
    [a \in DOMAIN rows |->
        IF a \in matched THEN [rows[a] EXCEPT !.is_default = FALSE] ELSE rows[a]]

create_address(rows, s) ==
    Append(Unset(rows, s.data.matched), Address(s.data.user_id, s.data.request))

(* setattr for each field of the request; the flush writes those that differ *)
(* from the loaded object, on which the UPDATE has cleared is_default        *)
update_address(rows, s) ==
    LET address_id == s.data.address_id
        loaded == IF address_id \in s.data.matched
                  THEN [s.data.loaded EXCEPT !.is_default = FALSE] ELSE s.data.loaded
        cleared == Unset(rows, s.data.matched)
    IN  [cleared EXCEPT ![address_id] =
            [f \in DOMAIN @ |->
                IF f \in DOMAIN s.data.request /\ s.data.request[f] # loaded[f]
                THEN s.data.request[f] ELSE @[f]]]

set_default_address(rows, s) ==
    [Unset(rows, s.data.matched) EXCEPT ![s.data.address_id].is_default = TRUE]

(* the handler after its UPDATE, if it has one: the flush and the commit *)
AddressFinish(r) ==
    /\ sessions[r].op \in AddressOps
    /\ \/ sessions[r].pc = "unset"
       \/ sessions[r].pc = "open" /\ ~(sessions[r].data.found /\ WantsDefault(sessions[r]))
    /\ LET s == sessions[r]
       IN  IF ~s.data.found
           THEN /\ addresses' = addresses
                /\ sessions' = [sessions EXCEPT ![r].pc = "done", ![r].outcome = "rejected",
                                                ![r].error = "address_not_found"]
           ELSE /\ IF s.op = "create_address"
                   THEN ~RangeLocked(r, s.data.user_id)
                   ELSE \A q \in Requests \ {r} : s.data.address_id \notin RowLocks(q)
                /\ addresses' =
                        CASE s.op = "create_address" -> create_address(addresses, s)
                          [] s.op = "update_address" -> update_address(addresses, s)
                          [] s.op = "set_default_address" -> set_default_address(addresses, s)
                /\ sessions' = [sessions EXCEPT ![r].pc = "done", ![r].outcome = "ok"]
    /\ UNCHANGED <<dbvars, now, outbox, engine>>

(* two inserts that wait for each other's range lock: the database rolls one *)
(* of the two transactions back                                              *)
AddressDeadlock(r) ==
    /\ sessions[r].op = "create_address" /\ sessions[r].pc = "unset"
    /\ RangeLocked(r, sessions[r].data.user_id)
    /\ sessions' = [sessions EXCEPT ![r].pc = "done", ![r].outcome = "rejected",
                                    ![r].error = "deadlock"]
    /\ UNCHANGED <<dbvars, now, outbox, uservars>>

-----------------------------------------------------------------------------
(* order_service.place_order, statement by statement: the UPDATEs of a     *)
(* checkout and the row locks they take.  Each line of the request changes *)
(* product.total_sold and, with a variant, variant.stock_quantity.  With   *)
(* autoflush the session writes these changes at its next query, which is  *)
(* the SELECT of the next line (or validate_coupon's, or the flush before  *)
(* the order row): products before product_variants, line after line.      *)
(* Without autoflush the flush before the order row writes them all,       *)
(* each table's rows ordered by primary key.  record_coupon_usage changes  *)
(* the coupon after the order row was inserted.  A row lock is held until  *)
(* the transaction ends.                                                   *)

Row(table, id) == [table |-> table, id |-> id]

LineRows(cart_item) ==
    <<Row("products", cart_item.product_id)>>
    \o (IF cart_item.variant_id # None
        THEN <<Row("product_variants", cart_item.variant_id)>>
        ELSE <<>>)

(* the rows of the lines that the loop completes *)
RECURSIVE RowsInLineOrder(_, _)
RowsInLineOrder(s, items) ==
    IF items = <<>> THEN <<>>
    ELSE LET after == PlaceOrderItem(s, Head(items))
         IN  IF ~after.ok THEN <<>>
             ELSE LineRows(Head(items)) \o RowsInLineOrder(after, Tail(items))

RECURSIVE Ascending(_)
Ascending(ids) ==
    IF ids = {} THEN <<>>
    ELSE LET least == CHOOSE x \in ids : \A y \in ids : x <= y
         IN  <<least>> \o Ascending(ids \ {least})

RowsOf(rows, table) ==
    LET ids == Ascending({rows[i].id : i \in {j \in 1..Len(rows) : rows[j].table = table}})
    IN  [i \in 1..Len(ids) |-> Row(table, ids[i])]

RowsInKeyOrder(rows) == RowsOf(rows, "products") \o RowsOf(rows, "product_variants")

(* a row that the transaction already wrote is already locked *)
RECURSIVE FirstWrites(_)
FirstWrites(rows) ==
    IF rows = <<>> THEN <<>>
    ELSE LET n == Len(rows)
             before == FirstWrites(SubSeq(rows, 1, n - 1))
         IN  IF \E i \in 1..(n - 1) : rows[i] = rows[n] THEN before
             ELSE Append(before, rows[n])

RowsWritten(snap, data, autoflush) ==
    LET s == place_order(snap, data.user_id, data, now)
        lines == RowsInLineOrder(NewWork(snap), data.items)
    IN  FirstWrites((IF autoflush THEN lines
                     ELSE IF s.ok THEN RowsInKeyOrder(lines)
                     ELSE <<>>)
                    \o (IF s.ok /\ s.usages # <<>>
                        THEN <<Row("coupons", s.usages[1].coupon_id)>>
                        ELSE <<>>))

Statements(r) == RowsWritten(sessions[r].snap, sessions[r].data, engine.autoflush)

RowsLocked(r) ==
    IF Open(r, "place_order")
    THEN {Statements(r)[i] : i \in 1..sessions[r].data.flushed}
    ELSE {}

Pending(r) == Open(r, "place_order") /\ sessions[r].data.flushed < Len(Statements(r))

NextRow(r) == Statements(r)[sessions[r].data.flushed + 1]

WaitsFor(r, q) == r # q /\ Pending(r) /\ NextRow(r) \in RowsLocked(q)

(* the next UPDATE of the checkout: it waits while another transaction *)
(* holds the row                                                       *)
PlaceOrderUpdateRow(r) ==
    /\ Pending(r)
    /\ \A q \in Requests : ~WaitsFor(r, q)
    /\ sessions' = [sessions EXCEPT ![r].data.flushed = @ + 1]
    /\ UNCHANGED <<dbvars, now, outbox, uservars>>

(* the handler's end and the commit, after the last UPDATE *)
PlaceOrderEnd(r) ==
    /\ Open(r, "place_order") /\ ~Pending(r)
    /\ PlaceOrderFinish(r)

(* two checkouts that wait for each other's row: the database rolls one *)
(* of the two transactions back                                         *)
PlaceOrderDeadlock(r) ==
    /\ \E q \in Requests : WaitsFor(r, q) /\ WaitsFor(q, r)
    /\ sessions' = [sessions EXCEPT ![r].pc = "done", ![r].outcome = "rejected",
                                    ![r].error = "deadlock"]
    /\ UNCHANGED <<dbvars, now, outbox, uservars>>

-----------------------------------------------------------------------------
(* Initial state: a seeded catalogue and one coupon, no orders *)

SeedCoupon ==
    [is_active |-> TRUE, type |-> "fixed_amount", value |-> 500,
     min_order_amount |-> 0, max_discount |-> Null,
     usage_limit |-> 2, usage_per_customer |-> 1, used_count |-> 0,
     starts_at |-> None, expires_at |-> None]

InitAt(coupon, t, settings) ==
    /\ products = [p \in ProductIds |->
            [status |-> "active", base_price |-> IF p = 1 THEN 1000 ELSE 3000,
             total_sold |-> 0]]
    /\ variants = [v \in VariantIds |->
            [product_id |-> v, is_active |-> TRUE,
             price |-> IF v = 1 THEN None ELSE 2500,
             stock_quantity |-> InitStock]]
    /\ inventory_log = <<>>
    /\ coupons = [c \in CouponIds |-> coupon]
    /\ coupon_usage = <<>>
    /\ orders = <<>>
    /\ order_status_history = <<>>
    /\ now = t
    /\ sessions = [r \in Requests |-> Idle]
    /\ outbox = <<>>
    /\ addresses = <<>>
    /\ engine = settings

(* MySQL's default isolation level and SQLAlchemy's default autoflush *)
DefaultEngine == [isolation_level |-> "REPEATABLE READ", autoflush |-> TRUE]

InitWith(coupon, t) == InitAt(coupon, t, DefaultEngine)

Init == InitWith(SeedCoupon, 1)

-----------------------------------------------------------------------------
(* Inventory: checkouts, admin-created orders, cancellations, adjustments *)

Line(variant_id, quantity) ==
    [product_id |-> variants[variant_id].product_id, variant_id |-> variant_id,
     quantity |-> quantity]

Lines == {Line(v, q) : v \in VariantIds, q \in Quantities}

Carts ==
    {<<l>> : l \in Lines}
    \cup {<<Line(1, q), Line(2, MaxQuantity)>> : q \in Quantities}

AdminItems ==
    {[product_id |-> variants[v].product_id, variant_id |-> v, quantity |-> q,
      custom_price |-> None] : v \in VariantIds, q \in Quantities}

CustomItem ==
    [product_id |-> None, variant_id |-> None, quantity |-> 1, custom_price |-> 1000]

AdminOrders ==
    {[items |-> <<i>>, customer_id |-> None, discount_amount |-> 0, shipping_cost |-> 0] :
        i \in AdminItems}
    \cup {[items |-> <<CustomItem>>, customer_id |-> None, discount_amount |-> d,
           shipping_cost |-> 0] : d \in {500, 1500}}

Adjustments ==
    {[quantity_change |-> q, reason |-> "manual_adjustment"] :
        q \in (-MaxQuantity..MaxQuantity) \ {0}}

NextStock ==
    \E r \in 1..MaxRequests :
        \/ \E items \in Carts :
                PlaceOrderBegin(r, 1, [items |-> items, coupon_code |-> None])
        \/ PlaceOrderFinish(r)
        \/ \E data \in AdminOrders : AdminCreateOrderBegin(r, data)
        \/ AdminCreateOrderFinish(r)
        \/ \E o \in 1..Len(orders) : CancelOrderBegin(r, o, 1)
        \/ CancelOrderFinish(r)
        \/ \E data \in Adjustments : AdjustStockBegin(r, 1, data)
        \/ AdjustStockFinish(r)

Spec == Init /\ [][NextStock]_vars

-----------------------------------------------------------------------------
(* Properties of the inventory *)

Done(r, op) == sessions[r].pc = "done" /\ sessions[r].op = op

Concurrent(r1, r2) == r1 # r2 /\ r2 \in sessions[r1].overlaps

(* r is a finished checkout of one unit of variant v that read a stock of 1 *)
LastUnitCheckout(r, v) ==
    /\ Done(r, "place_order")
    /\ sessions[r].data.items = <<Line(v, 1)>>
    /\ sessions[r].snap.variants[v].stock_quantity = 1

(* C1: of two concurrent checkouts of the last unit of one variant, exactly one *)
(* commits and the other is rejected for insufficient stock                      *)
C1_OneLastUnitCheckoutCommits ==
    \A r1, r2 \in Requests : \A v \in VariantIds :
        (Concurrent(r1, r2) /\ LastUnitCheckout(r1, v) /\ LastUnitCheckout(r2, v))
        => \/ sessions[r1].outcome = "ok" /\ sessions[r2].outcome = "rejected"
              /\ sessions[r2].error = "insufficient_stock"
           \/ sessions[r2].outcome = "ok" /\ sessions[r1].outcome = "rejected"
              /\ sessions[r1].error = "insufficient_stock"

(* C2: every variant's stock is its initial stock plus the signed sum of its *)
(* inventory-log entries                                                      *)
C2_StockEqualsLedger ==
    \A v \in VariantIds :
        variants[v].stock_quantity = InitStock + SumChanges(inventory_log, v)

RECURSIVE Requested(_, _)
Requested(items, v) ==
    IF items = <<>> THEN 0
    ELSE (IF Head(items).variant_id = v THEN Head(items).quantity ELSE 0)
         + Requested(Tail(items), v)

(* session r is finishing its request in this step *)
Finishing(r) == sessions[r].pc = "open" /\ sessions'[r].pc = "done"

(* the units of variant v that the request of session r takes out of stock *)
Debit(r, v) ==
    CASE sessions[r].op \in {"place_order", "admin_create_order"} ->
                Requested(sessions[r].data.items, v)
      [] sessions[r].op = "adjust_stock" /\ sessions[r].data.variant_id = v ->
                -sessions[r].data.quantity_change
      [] OTHER -> 0

(* C3: no variant's stock is ever negative, and a checkout, an admin-created *)
(* order or an adjustment that would take the committed stock below zero is  *)
(* rejected, whatever runs concurrently                                      *)
C3_StockNeverNegative ==
    [][/\ \A v \in VariantIds : variants'[v].stock_quantity >= 0
       /\ \A r \in Requests : \A v \in VariantIds :
            (Finishing(r) /\ variants[v].stock_quantity - Debit(r, v) < 0)
            => sessions'[r].outcome = "rejected"]_vars

(* some line of checkout r asks for more units than the stock of its variant *)
OverAsks(r) ==
    \E i \in 1..Len(sessions[r].data.items) :
        LET item == sessions[r].data.items[i]
        IN  /\ item.variant_id \in DOMAIN sessions[r].snap.variants
            /\ item.quantity > sessions[r].snap.variants[item.variant_id].stock_quantity

(* C4: a checkout with a line that asks for more than its variant's stock fails, *)
(* and its failing leaves stock, inventory log, coupons, usage records, orders   *)
(* and history as they were                                                      *)
C4_FailedCheckoutChangesNothing ==
    [][\A r \in Requests :
          (Open(r, "place_order") /\ OverAsks(r) /\ sessions'[r].pc = "done")
          => (sessions'[r].outcome = "rejected" /\ UNCHANGED dbvars)]_vars

(* a two-line checkout whose first line was debited in the session and whose *)
(* second line failed: nothing of it is in the tables                         *)
C4_Witness ==
    \E r \in Requests :
        /\ Done(r, "place_order") /\ sessions[r].outcome = "rejected"
        /\ sessions[r].error = "insufficient_stock"
        /\ Len(sessions[r].data.items) = 2
        /\ LET first == sessions[r].data.items[1]
           IN  /\ first.quantity <= sessions[r].snap.variants[first.variant_id].stock_quantity
               /\ variants[first.variant_id].stock_quantity
                    = sessions[r].snap.variants[first.variant_id].stock_quantity
        /\ inventory_log = <<>> /\ orders = <<>>

(* C9: every order's total is subtotal - discount + shipping + tax, its discount *)
(* is at most its subtotal and its total is not negative                         *)
C9_OrderTotals ==
    \A o \in DOMAIN orders :
        /\ orders[o].total = orders[o].subtotal - orders[o].discount_amount
                             + orders[o].shipping_cost + orders[o].tax_amount
        /\ orders[o].discount_amount <= orders[o].subtotal
        /\ orders[o].total >= 0

-----------------------------------------------------------------------------
(* Order status: checkouts, customer cancels, admin status updates, mark-paid *)

StatusInputs == OrderStatuses \cup {"refunded"}

NextOrders ==
    \E r \in 1..MaxOrderRequests :
        \/ PlaceOrderBegin(r, 1, [items |-> <<Line(1, 1)>>, coupon_code |-> None])
        \/ PlaceOrderFinish(r)
        \/ \E o \in 1..Len(orders), u \in UserIds : CancelOrderBegin(r, o, u)
        \/ CancelOrderFinish(r)
        \/ \E o \in 1..Len(orders), st \in StatusInputs :
                UpdateOrderStatusBegin(r, o, [status |-> st, note |-> ""])
        \/ UpdateOrderStatusFinish(r)
        \/ \E o \in 1..Len(orders) : MarkOrderPaidBegin(r, o)
        \/ MarkOrderPaidFinish(r)

SpecOrders == Init /\ [][NextOrders]_vars

RECURSIVE Credited(_, _, _)
Credited(log, order_id, v) ==
    IF log = <<>> THEN 0
    ELSE (IF /\ Head(log).reason = "order_cancelled"
             /\ Head(log).reference_id = order_id
             /\ Head(log).variant_id = v
          THEN Head(log).quantity_change ELSE 0)
         + Credited(Tail(log), order_id, v)

(* session r asked to cancel an order that it read as cancelled already *)
Recancel(r) ==
    /\ sessions[r].pc = "done"
    /\ \/ sessions[r].op = "cancel_order"
       \/ sessions[r].op = "update_order_status" /\ sessions[r].data.status = "cancelled"
    /\ sessions[r].data.order_id \in DOMAIN sessions[r].snap.orders
    /\ sessions[r].snap.orders[sessions[r].data.order_id].status = "cancelled"

(* C5: the order_cancelled credits of an order never exceed, per variant, what *)
(* the order debited, and cancelling a cancelled order is rejected             *)
C5_CancelCreditsOnce ==
    /\ \A o \in DOMAIN orders : \A v \in VariantIds :
            Credited(inventory_log, o, v) <= Requested(orders[o].items, v)
    /\ \A r \in Requests : Recancel(r) => sessions[r].outcome = "rejected"

PermittedTransitions ==
    {<<"pending", "confirmed">>, <<"confirmed", "processing">>,
     <<"processing", "shipped">>, <<"shipped", "delivered">>,
     <<"pending", "cancelled">>, <<"confirmed", "cancelled">>,
     <<"delivered", "returned">>}

RequestedStatus(r) ==
    IF sessions[r].op = "cancel_order" THEN "cancelled" ELSE sessions[r].data.status

RequestsChange(r) ==
    /\ sessions[r].op \in {"update_order_status", "cancel_order"}
    /\ sessions[r].data.order_id \in DOMAIN orders
    /\ RequestedStatus(r) # orders[sessions[r].data.order_id].status

(* C6: an order's status changes only along the permitted transitions, and a *)
(* request for any other change is rejected and leaves status and history    *)
C6_OnlyPermittedTransitions ==
    [][/\ \A o \in DOMAIN orders :
            \/ orders'[o].status = orders[o].status
            \/ <<orders[o].status, orders'[o].status>> \in PermittedTransitions
       /\ \A r \in Requests :
            (/\ Finishing(r) /\ RequestsChange(r)
             /\ <<orders[sessions[r].data.order_id].status, RequestedStatus(r)>>
                    \notin PermittedTransitions)
            => /\ sessions'[r].outcome = "rejected"
               /\ UNCHANGED <<orders, order_status_history>>]_vars

HistoryOf(order_id) ==
    SelectSeq(order_status_history, LAMBDA h : h.order_id = order_id)

(* C10: an order's status is the status of its latest history entry *)
C10_StatusIsLatestHistory ==
    \A o \in DOMAIN orders :
        /\ HistoryOf(o) # <<>>
        /\ HistoryOf(o)[Len(HistoryOf(o))].status = orders[o].status

(* C11: a step that changes an order's status to cancelled adds, in the same *)
(* transaction, each line's quantity to its variant's stock and writes the   *)
(* order_cancelled log entries that reference the order                      *)
C11_CancelledOrderIsCredited ==
    [][\A o \in DOMAIN orders : \A v \in VariantIds :
          (/\ orders[o].status # "cancelled" /\ orders'[o].status = "cancelled"
           /\ Requested(orders[o].items, v) > 0)
          => /\ variants'[v].stock_quantity
                    = variants[v].stock_quantity + Requested(orders[o].items, v)
             /\ Credited(inventory_log', o, v)
                    = Credited(inventory_log, o, v) + Requested(orders[o].items, v)]_vars

-----------------------------------------------------------------------------
(* Coupons: checkouts with a coupon, admin coupon updates *)

CouponCart == <<[product_id |-> 1, variant_id |-> None, quantity |-> 1]>>

CouponUpdates == {[usage_limit |-> 1], [is_active |-> FALSE], [is_active |-> TRUE]}

NextCoupons ==
    \E r \in 1..MaxCouponRequests :
        \/ \E u \in UserIds \cup {None}, c \in CouponIds \cup {None} :
                PlaceOrderBegin(r, u, [items |-> CouponCart, coupon_code |-> c])
        \/ PlaceOrderFinish(r)
        \/ \E c \in CouponIds, data \in CouponUpdates : UpdateCouponBegin(r, c, data)
        \/ UpdateCouponFinish(r)

SpecCoupons == Init /\ [][NextCoupons]_vars

OrdersWith(coupon_id, user_id) ==
    {o \in DOMAIN orders :
        orders[o].coupon_id = coupon_id /\ orders[o].user_id = user_id}

(* C7: with usage_per_customer = 1, a customer has at most one order accepted *)
(* with the coupon and at most one usage record for it                        *)
C7_OneUsagePerCustomer ==
    \A c \in CouponIds : \A u \in UserIds :
        coupons[c].usage_per_customer = 1
        => /\ UsageCount(coupon_usage, c, u) <= 1
           /\ Cardinality(OrdersWith(c, u)) <= 1

(* C8: a coupon with a usage limit has used_count <= usage_limit *)
C8_UsedCountWithinLimit ==
    \A c \in CouponIds :
        coupons[c].usage_limit # Null => coupons[c].used_count <= coupons[c].usage_limit

(* C18: a successful checkout with a coupon by a known customer adds exactly *)
(* one usage record, of the coupon, the customer and the new order, and adds *)
(* 1 to the coupon's used_count; a guest's checkout and a checkout without a *)
(* coupon change neither                                                     *)
C18_UsageRecordedOnce ==
    [][\A r \in Requests :
          (/\ Finishing(r) /\ sessions[r].op = "place_order"
           /\ sessions'[r].outcome = "ok")
          => LET d == sessions[r].data
             IN  IF d.coupon_code # None /\ d.user_id # None
                 THEN /\ coupon_usage' = Append(coupon_usage,
                              CouponUsage(d.coupon_code, d.user_id, Len(orders) + 1))
                      /\ coupons'[d.coupon_code].used_count
                              = coupons[d.coupon_code].used_count + 1
                 ELSE UNCHANGED <<coupon_usage, coupons>>]_vars

(* C19: a coupon's used_count is the number of usage records that exist for it *)
C19_UsedCountIsRecordCount ==
    \A c \in CouponIds :
        coupons[c].used_count
            = Cardinality({i \in 1..Len(coupon_usage) : coupon_usage[i].coupon_id = c})

-----------------------------------------------------------------------------
(* Checkout: carts with and without variants, customers and guests, coupons *)

ProductLine(product_id, quantity) ==
    [product_id |-> product_id, variant_id |-> None, quantity |-> quantity]

(* subtotals 1000, 4500, 5000 and 6000 *)
CheckoutCarts ==
    {<<Line(1, 1)>>, <<Line(2, 1), ProductLine(1, 2)>>, <<ProductLine(1, 5)>>,
     <<ProductLine(2, 2)>>}

(* code 2 names no coupon *)
CouponCodes == CouponIds \cup {None, 2}

NextCheckout ==
    \E r \in 1..MaxRequests :
        \/ \E items \in CheckoutCarts, u \in {1, None}, code \in CouponCodes :
                PlaceOrderBegin(r, u, [items |-> items, coupon_code |-> code])
        \/ PlaceOrderFinish(r)

SpecCheckout == Init /\ [][NextCheckout]_vars

CouponErrors ==
    {"invalid_code", "not_yet_active", "expired", "usage_limit_reached",
     "already_used", "below_minimum"}

(* C12: a checkout whose coupon code is rejected by validation fails and leaves *)
(* orders, history, stock, inventory log and coupons as they were               *)
C12_RejectedCouponChangesNothing ==
    [][\A r \in Requests :
          (/\ Finishing(r) /\ sessions[r].op = "place_order"
           /\ sessions'[r].error \in CouponErrors)
          => (sessions'[r].outcome = "rejected" /\ UNCHANGED dbvars)]_vars

(* a checkout with a variant line in stock was refused for its coupon, and the *)
(* variant's stock and the log are as the checkout read them                   *)
C12_Witness ==
    \E r \in Requests :
        /\ Done(r, "place_order") /\ sessions[r].outcome = "rejected"
        /\ sessions[r].error \in CouponErrors
        /\ \E i \in 1..Len(sessions[r].data.items) :
              LET item == sessions[r].data.items[i]
              IN  /\ item.variant_id # None
                  /\ sessions[r].snap.variants[item.variant_id].stock_quantity
                        >= item.quantity
                  /\ variants[item.variant_id].stock_quantity
                        = sessions[r].snap.variants[item.variant_id].stock_quantity
                  /\ SumChanges(inventory_log, item.variant_id) = 0

(* C17: a checkout's order has shipping 0 from a subtotal of 5000 and 200 below *)
(* it, tax 0, and total = subtotal - discount + shipping                       *)
C17_ShippingAndTotal ==
    \A o \in DOMAIN orders :
        /\ orders[o].shipping_cost = (IF orders[o].subtotal >= 5000 THEN 0 ELSE 200)
        /\ orders[o].tax_amount = 0
        /\ orders[o].total = orders[o].subtotal - orders[o].discount_amount
                             + orders[o].shipping_cost

(* subtotal 4500 with the fixed 500 coupon gives 4200, and an order at the *)
(* threshold ships free                                                    *)
C17_Witness ==
    /\ \E o \in DOMAIN orders :
            /\ orders[o].subtotal = 4500 /\ orders[o].discount_amount = 500
            /\ orders[o].shipping_cost = 200 /\ orders[o].total = 4200
    /\ \E o \in DOMAIN orders :
            /\ orders[o].subtotal = 5000 /\ orders[o].shipping_cost = 0
            /\ orders[o].total = 5000 - orders[o].discount_amount

-----------------------------------------------------------------------------
(* Notification: the checkout handler and the commit as separate steps *)

NextNotify ==
    \E r \in 1..MaxRequests :
        \/ \E items \in CheckoutCarts, u \in {1, None} :
                PlaceOrderBegin(r, u, [items |-> items, coupon_code |-> None])
        \/ PlaceOrderReturn(r, TRUE)
        \/ PlaceOrderReturn(r, FALSE)
        \/ PlaceOrderCommit(r)

SpecNotify == Init /\ [][NextNotify]_vars

(* C13: every order-placed email in the pool belongs to a checkout whose      *)
(* transaction has committed, and no checkout fails because its notification *)
(* could not be produced                                                      *)
C13_NotifiedAfterCommit ==
    /\ \A i \in 1..Len(outbox) :
            /\ sessions[outbox[i].request].pc = "done"
            /\ sessions[outbox[i].request].outcome = "ok"
    /\ \A r \in Requests :
            sessions[r].pc = "done" => sessions[r].error # "email_render_failed"

-----------------------------------------------------------------------------
(* Order numbers: checkouts whose random digits are drawn from a small range *)

MaxOrderNumber == 2

OrderNumbers == 1..MaxOrderNumber

NextNumbers ==
    \E r \in 1..MaxRequests :
        \/ \E items \in CheckoutCarts, u \in {1, None}, n \in OrderNumbers :
                PlaceOrderBegin(r, u, [items |-> items, coupon_code |-> None,
                                       order_number |-> n])
        \/ PlaceOrderFinish(r)

SpecNumbers == Init /\ [][NextNumbers]_vars

(* C14: no two orders have the same order number, and no checkout fails *)
(* because the number it generated is already taken                     *)
C14_OrderNumberCollisionRetried ==
    /\ \A o1, o2 \in DOMAIN orders :
            o1 # o2 => orders[o1].order_number # orders[o2].order_number
    /\ \A r \in Requests :
            sessions[r].pc = "done" => sessions[r].error # "duplicate_order_number"

-----------------------------------------------------------------------------
(* Discounts: checkouts against a coupon of any configuration, at any time *)

Times == 1..3

TypeValues == {<<"percentage", 20>>, <<"fixed_amount", 500>>, <<"fixed_amount", 5000>>}

(* an admin may store 0 as well as NULL for the cap and for the usage limit *)
CouponConfigs ==
    {[is_active |-> a, type |-> tv[1], value |-> tv[2], min_order_amount |-> m,
      max_discount |-> md, usage_limit |-> ul, usage_per_customer |-> 1,
      used_count |-> 0, starts_at |-> st, expires_at |-> ex] :
        a \in BOOLEAN, tv \in TypeValues, m \in {0, 3000}, md \in {Null, 0, 800},
        ul \in {Null, 0, 1}, st \in {None, 2}, ex \in {None, 2}}

InitDiscount == \E coupon \in CouponConfigs, t \in Times : InitWith(coupon, t)

DiscountCarts == {<<ProductLine(1, 2)>>, <<ProductLine(2, 2)>>}

NextDiscount ==
    \E r \in 1..MaxRequests :
        \/ \E items \in DiscountCarts, u \in {1, None}, code \in CouponIds \cup {2} :
                PlaceOrderBegin(r, u, [items |-> items, coupon_code |-> code])
        \/ PlaceOrderFinish(r)

SpecDiscount == InitDiscount /\ [][NextDiscount]_vars

RECURSIVE ListSubtotal(_)
(* the subtotal of a cart of product lines at list prices *)
ListSubtotal(items) ==
    IF items = <<>> THEN 0
    ELSE products[Head(items).product_id].base_price * Head(items).quantity
         + ListSubtotal(Tail(items))

(* the errors of the first check, in the stated order, that the coupon of *)
(* checkout r fails on what the checkout read; empty when every check passes *)
FirstFailing(r) ==
    LET d == sessions[r].data
        cs == sessions[r].snap.coupons
        c == cs[d.coupon_code]
        used == Cardinality({i \in 1..Len(sessions[r].snap.coupon_usage) :
                    /\ sessions[r].snap.coupon_usage[i].coupon_id = d.coupon_code
                    /\ sessions[r].snap.coupon_usage[i].user_id = d.user_id})
    IN  IF d.coupon_code \notin DOMAIN cs \/ ~c.is_active THEN {"invalid_code"}
        ELSE IF \/ c.starts_at # None /\ now < c.starts_at
                \/ c.expires_at # None /\ now > c.expires_at
             THEN {"not_yet_active", "expired"}
        ELSE IF c.usage_limit # Null /\ ~(c.used_count < c.usage_limit)
             THEN {"usage_limit_reached"}
        ELSE IF d.user_id # None /\ ~(used < c.usage_per_customer)
             THEN {"already_used"}
        ELSE IF ~(ListSubtotal(d.items) >= c.min_order_amount) THEN {"below_minimum"}
        ELSE {}

(* C15: a checkout with a coupon is accepted exactly when the coupon passes   *)
(* every check, and is otherwise refused with the error of the first failing *)
(* check in the order: exists and active, time window, usage limit,          *)
(* per-customer limit, minimum order amount                                  *)
C15_FirstFailingCheckWins ==
    \A r \in Requests :
        (Done(r, "place_order") /\ sessions[r].data.coupon_code # None)
        => IF FirstFailing(r) = {}
           THEN sessions[r].outcome = "ok"
           ELSE sessions[r].outcome = "rejected" /\ sessions[r].error \in FirstFailing(r)

(* the discount the stated rule gives checkout r for the coupon it read *)
StatedDiscount(r) ==
    LET c == sessions[r].snap.coupons[sessions[r].data.coupon_code]
        subtotal == ListSubtotal(sessions[r].data.items)
        d == IF c.type = "percentage"
             THEN LET pct == (subtotal * c.value) \div 100
                  IN  IF c.max_discount # Null /\ c.max_discount < pct
                      THEN c.max_discount ELSE pct
             ELSE c.value
    IN  IF d > subtotal THEN subtotal ELSE d

(* C16: the discount of an order accepted with a coupon is subtotal * value / *)
(* 100 capped at max_discount when one is set (percentage) or value (fixed   *)
(* amount), and never more than the subtotal                                 *)
C16_DiscountAsStated ==
    \A r \in Requests : \A o \in DOMAIN orders :
        (/\ Done(r, "place_order") /\ sessions[r].outcome = "ok"
         /\ sessions[r].data.coupon_code # None
         /\ orders[o].order_number = sessions[r].data.order_number)
        => /\ orders[o].discount_amount = StatedDiscount(r)
           /\ orders[o].discount_amount <= orders[o].subtotal

-----------------------------------------------------------------------------
(* Fulfilment: a checkout, then admin status, tracking and note updates *)

(* tracking numbers, urls and notes are texts, numbered here; None is an *)
(* omitted tracking_url                                                  *)
TrackingUpdates == [tracking_number : {1, 2}, tracking_url : {None, 1}]

NoteUpdates == [admin_note : {1, 2}]

NextFulfilment ==
    \E r \in 1..MaxFulfilmentRequests :
        \/ PlaceOrderBegin(r, 1, [items |-> <<Line(1, 1)>>, coupon_code |-> None])
        \/ PlaceOrderFinish(r)
        \/ UpdateOrderStatusBegin(r, 1, [status |-> "shipped", note |-> ""])
        \/ UpdateOrderStatusFinish(r)
        \/ \E d \in TrackingUpdates : UpdateOrderTrackingBegin(r, 1, d)
        \/ UpdateOrderTrackingFinish(r)
        \/ \E d \in NoteUpdates : UpdateOrderNoteBegin(r, 1, d)
        \/ UpdateOrderNoteFinish(r)

SpecFulfilment == Init /\ [][NextFulfilment]_vars

TrackingFields == {"tracking_number", "tracking_url"}

NoteFields == {"admin_note"}

(* C20: the commit of a tracking update changes at most the tracking fields  *)
(* of the orders, and the commit of a note update at most the admin note:    *)
(* every other field of every order (status, payment_status, the monetary    *)
(* fields, the line items) keeps its value, no order is added, and the       *)
(* status history is unchanged                                               *)
C20_TrackingAndNoteFrame ==
    [][\A r \in Requests :
          (Finishing(r) /\ sessions[r].op \in {"update_order_tracking", "update_order_note"})
          => LET may == IF sessions[r].op = "update_order_tracking"
                        THEN TrackingFields ELSE NoteFields
             IN  /\ DOMAIN orders' = DOMAIN orders
                 /\ \A o \in DOMAIN orders : \A f \in DOMAIN orders[o] \ may :
                        orders'[o][f] = orders[o][f]
                 /\ order_status_history' = order_status_history]_vars

(* a tracking update of an order committed while a status or note update *)
(* of the same order was in flight, and both took effect                  *)
C20_Witness ==
    \E t, u \in Requests :
        /\ sessions[t].op = "update_order_tracking" /\ sessions[t].outcome = "ok"
        /\ sessions[u].op \in {"update_order_status", "update_order_note"}
        /\ sessions[u].outcome = "ok"
        /\ u \in sessions[t].overlaps
        /\ \E o \in DOMAIN orders :
              /\ orders[o].tracking_number # None
              /\ orders[o].status = "shipped" \/ orders[o].admin_note # None

-----------------------------------------------------------------------------
(* Catalogue: checkouts and what follows them on the order, beside product *)
(* edits and deletions and manual stock adjustments                        *)

NoFields == [f \in {} |-> None]

Reprice == [fields |-> [base_price |-> 1500], options_given |-> FALSE, variants |-> <<>>]

Unpublish == [fields |-> [status |-> "draft"], options_given |-> FALSE, variants |-> <<>>]

DropVariants == [fields |-> NoFields, options_given |-> TRUE, variants |-> <<>>]

ReplaceVariants ==
    [fields |-> NoFields, options_given |-> TRUE,
     variants |-> <<[price |-> 2000, stock_quantity |-> 1]>>]

CatalogueCart == <<[product_id |-> 1, variant_id |-> 1, quantity |-> 1]>>

NextCatalogue ==
    \E r \in 1..MaxCatalogueRequests :
        \/ PlaceOrderBegin(r, 1, [items |-> CatalogueCart, coupon_code |-> None])
        \/ PlaceOrderFinish(r)
        \/ CancelOrderBegin(r, 1, 1)
        \/ CancelOrderFinish(r)
        \/ UpdateOrderStatusBegin(r, 1, [status |-> "confirmed", note |-> ""])
        \/ UpdateOrderStatusFinish(r)
        \/ UpdateOrderTrackingBegin(r, 1, [tracking_number |-> 1, tracking_url |-> None])
        \/ UpdateOrderTrackingFinish(r)
        \/ MarkOrderPaidBegin(r, 1)
        \/ MarkOrderPaidFinish(r)
        \/ UpdateOrderNoteBegin(r, 1, [admin_note |-> 1])
        \/ UpdateOrderNoteFinish(r)
        \/ \E data \in {Reprice, ReplaceVariants} : UpdateProductBegin(r, 1, data)
        \/ UpdateProductFinish(r)
        \/ DeleteProductBegin(r, 1)
        \/ DeleteProductFinish(r)

SpecCatalogue == Init /\ [][NextCatalogue]_vars

MoneyFields == {"subtotal", "shipping_cost", "discount_amount", "tax_amount", "total"}

LineFields == {"quantity", "unit_price", "total_price"}

(* C21: no step changes an existing order's subtotal, shipping_cost,        *)
(* discount_amount, tax_amount or total, nor the number of its line items   *)
(* or any line item's quantity, unit price or line total; the steps include *)
(* customer cancels, admin status, tracking, mark-paid and note updates,    *)
(* and price changes, variant replacement and deletion of the product       *)
C21_OrderAmountsFrozen ==
    [][\A o \in DOMAIN orders :
          /\ o \in DOMAIN orders'
          /\ \A f \in MoneyFields : orders'[o][f] = orders[o][f]
          /\ Len(orders'[o].items) = Len(orders[o].items)
          /\ \A i \in DOMAIN orders[o].items : \A f \in LineFields :
                orders'[o].items[i][f] = orders[o].items[i][f]]_vars

(* a cancelled order whose product has since been repriced or deleted *)
C21_Witness ==
    \E o \in DOMAIN orders :
        /\ orders[o].status = "cancelled"
        /\ LET item == orders[o].items[1]
           IN  \/ item.product_id = None
               \/ /\ item.product_id \in DOMAIN products
                  /\ products[item.product_id].base_price # item.unit_price

(* C27: the inventory log only grows: every step leaves each existing entry *)
(* in place and unchanged, and at most appends entries after them          *)
C27_LedgerAppendOnly ==
    [][/\ Len(inventory_log') >= Len(inventory_log)
       /\ \A i \in 1..Len(inventory_log) : inventory_log'[i] = inventory_log[i]]_vars

-----------------------------------------------------------------------------
(* Availability: checkouts of two lines while product 2 is unpublished, *)
(* loses its variants or is deleted                                     *)

CartLine(product_id, variant_id, quantity) ==
    [product_id |-> product_id, variant_id |-> variant_id, quantity |-> quantity]

(* a good first line, then a line of product 2, of its variant, of a product *)
(* or of a variant that never existed; and a line of product 1 with the      *)
(* variant of product 2                                                      *)
AvailabilityCarts ==
    {<<CartLine(1, 1, 1)>>,
     <<CartLine(1, 2, 1)>>,
     <<CartLine(1, 1, 1), CartLine(2, None, 1)>>,
     <<CartLine(1, 1, 1), CartLine(2, 2, 1)>>,
     <<CartLine(1, 1, 1), CartLine(3, None, 1)>>,
     <<CartLine(1, 1, 1), CartLine(1, 3, 1)>>}

NextAvailability ==
    \E r \in 1..MaxCatalogueRequests :
        \/ \E items \in AvailabilityCarts :
                PlaceOrderBegin(r, 1, [items |-> items, coupon_code |-> None])
        \/ PlaceOrderFinish(r)
        \/ \E data \in {Unpublish, DropVariants} : UpdateProductBegin(r, 2, data)
        \/ UpdateProductFinish(r)
        \/ DeleteProductBegin(r, 2)
        \/ DeleteProductFinish(r)

SpecAvailability == Init /\ [][NextAvailability]_vars

(* the line names a product or a variant that the checkout finds missing or *)
(* not active among the rows it read                                        *)
LineUnavailable(snap, line) ==
    \/ line.product_id \notin DOMAIN snap.products
    \/ snap.products[line.product_id].status # "active"
    \/ /\ line.variant_id # None
       /\ \/ line.variant_id \notin DOMAIN snap.variants
          \/ ~snap.variants[line.variant_id].is_active

(* C22: a checkout with a line whose product or variant is missing or not   *)
(* active is rejected, wherever the line stands in the request, and its     *)
(* commit step leaves every table as it was: no order, no stock change, no  *)
(* ledger entry                                                             *)
C22_UnavailableLineRejectsAll ==
    [][\A r \in Requests :
          (/\ Finishing(r) /\ sessions[r].op = "place_order"
           /\ \E i \in DOMAIN sessions[r].data.items :
                    LineUnavailable(sessions[r].snap, sessions[r].data.items[i]))
          => /\ sessions'[r].outcome = "rejected"
             /\ UNCHANGED dbvars]_vars

(* a checkout was rejected for its second line after its first line was *)
(* a variant in stock                                                   *)
C22_Witness ==
    \E r \in Requests :
        /\ Done(r, "place_order") /\ sessions[r].outcome = "rejected"
        /\ sessions[r].error \in {"product_unavailable", "variant_unavailable"}
        /\ Len(sessions[r].data.items) = 2
        /\ ~LineUnavailable(sessions[r].snap, sessions[r].data.items[1])
        /\ sessions[r].snap.variants[sessions[r].data.items[1].variant_id].stock_quantity
                >= sessions[r].data.items[1].quantity
        /\ 2 \in DOMAIN sessions[r].snap.products
        /\ sessions[r].snap.products[2].status = "draft"

-----------------------------------------------------------------------------
(* Status history *)

(* the status that the request of session r gives its order *)
NewStatus(r) ==
    CASE sessions[r].op = "place_order" -> "pending"
      [] sessions[r].op = "cancel_order" -> "cancelled"
      [] sessions[r].op = "update_order_status" -> sessions[r].data.status

(* the order of the request of session r: the one it names, or the one it adds *)
OrderOf(r) ==
    IF sessions[r].op = "place_order" THEN Len(orders) + 1 ELSE sessions[r].data.order_id

(* C24: no step removes or changes an entry of the status history; the commit *)
(* of a checkout, of a customer's cancel or of an admin's status update adds  *)
(* exactly one entry, for the request's order and with the status the request *)
(* gives it (pending for a checkout)                                          *)
C24_HistoryAppendOnly ==
    [][/\ Len(order_status_history') >= Len(order_status_history)
       /\ \A i \in 1..Len(order_status_history) :
                order_status_history'[i] = order_status_history[i]
       /\ \A r \in Requests :
            (/\ Finishing(r) /\ sessions'[r].outcome = "ok"
             /\ sessions[r].op \in {"place_order", "cancel_order", "update_order_status"})
            => /\ Len(order_status_history') = Len(order_status_history) + 1
               /\ order_status_history'[Len(order_status_history')].order_id = OrderOf(r)
               /\ order_status_history'[Len(order_status_history')].status
                        = NewStatus(r)]_vars

(* an order was placed, confirmed by the admin and cancelled by its customer *)
C24_Witness ==
    \E o \in DOMAIN orders :
        /\ Len(HistoryOf(o)) = 3
        /\ HistoryOf(o)[1].status = "pending"
        /\ HistoryOf(o)[2].status = "confirmed"
        /\ HistoryOf(o)[3].status = "cancelled"

-----------------------------------------------------------------------------
(* Cancellation: a customer's order, the admin's status updates, and cancel *)
(* requests of the customer and of another customer                         *)

NextCancel ==
    \E r \in 1..MaxCatalogueRequests :
        \/ PlaceOrderBegin(r, 1, [items |-> CatalogueCart, coupon_code |-> None])
        \/ PlaceOrderFinish(r)
        \/ \E st \in OrderStatuses :
                UpdateOrderStatusBegin(r, 1, [status |-> st, note |-> ""])
        \/ UpdateOrderStatusFinish(r)
        \/ \E u \in UserIds : CancelOrderBegin(r, 1, u)
        \/ CancelOrderFinish(r)

SpecCancel == Init /\ [][NextCancel]_vars

(* the order that the cancel request of session r names is, as the request *)
(* read it, an order of the caller in status pending or confirmed          *)
MayCancel(r) ==
    LET o == sessions[r].data.order_id
        read == sessions[r].snap.orders
    IN  /\ o \in DOMAIN read
        /\ read[o].user_id = sessions[r].data.user_id
        /\ read[o].status \in {"pending", "confirmed"}

(* C25: a customer's cancel succeeds only for an order of the caller that it *)
(* read in status pending or confirmed; any other cancel is rejected and its *)
(* step leaves the orders (status, cancelled_at), the status history, every  *)
(* variant's stock and the inventory log unchanged                           *)
C25_CancelOnlyOwnOpenOrder ==
    [][\A r \in Requests :
          (Finishing(r) /\ sessions[r].op = "cancel_order" /\ ~MayCancel(r))
          => /\ sessions'[r].outcome = "rejected"
             /\ UNCHANGED <<orders, order_status_history, variants, inventory_log>>]_vars

(* a cancel of a shipped order by its customer was rejected *)
C25_Witness ==
    \E r \in Requests :
        /\ Done(r, "cancel_order") /\ sessions[r].outcome = "rejected"
        /\ sessions[r].error = "cannot_be_cancelled"
        /\ sessions[r].snap.orders[sessions[r].data.order_id].status = "shipped"
        /\ sessions[r].snap.orders[sessions[r].data.order_id].user_id
                = sessions[r].data.user_id

-----------------------------------------------------------------------------
(* Ledger references *)

(* C26: every inventory-log entry with reason order_placed or order_cancelled *)
(* carries the id of an order as its reference                                *)
C26_OrderEntriesReferenceOrder ==
    \A i \in 1..Len(inventory_log) :
        inventory_log[i].reason \in {"order_placed", "order_cancelled"}
        => inventory_log[i].reference_id \in DOMAIN orders

-----------------------------------------------------------------------------
(* Line items *)

(* C29: the variant of every line item of every order is a variant of the *)
(* line item's product                                                    *)
C29_VariantOfLineProduct ==
    \A o \in DOMAIN orders : \A i \in DOMAIN orders[o].items :
        LET item == orders[o].items[i]
        IN  (item.variant_id \in DOMAIN variants /\ item.product_id # None)
            => variants[item.variant_id].product_id = item.product_id

-----------------------------------------------------------------------------
(* Repeated lines: checkouts with several lines of variant 1, and restocks *)

RepeatCarts ==
    {<<CartLine(1, 1, 1), CartLine(1, 1, 1)>>,
     <<CartLine(1, 1, 1), CartLine(1, 1, 2)>>,
     <<CartLine(1, 1, 2), CartLine(1, 1, 1)>>,
     <<CartLine(1, 1, 1), CartLine(2, 2, 1), CartLine(1, 1, 1)>>}

Restocks == {[quantity_change |-> q, reason |-> "restock"] : q \in 1..MaxQuantity}

NextRepeat ==
    \E r \in 1..MaxCatalogueRequests :
        \/ \E items \in RepeatCarts :
                PlaceOrderBegin(r, 1, [items |-> items, coupon_code |-> None])
        \/ PlaceOrderFinish(r)
        \/ \E data \in Restocks : AdjustStockBegin(r, 1, data)
        \/ AdjustStockFinish(r)

SpecRepeat == Init /\ [][NextRepeat]_vars

(* one order_placed entry per line, in the order of the lines *)
LineEntries(items) ==
    [i \in 1..Len(items) |->
        [variant_id |-> items[i].variant_id, quantity_change |-> -items[i].quantity,
         reason |-> "order_placed", reference_id |-> None]]

(* C30: a checkout whose lines name a variant more than once is accepted    *)
(* exactly when, for each variant, the sum of its lines' quantities is at   *)
(* most the stock the checkout read; when accepted, the variant's stock     *)
(* becomes the stock read less that sum and the log gains one entry per line *)
C30_RepeatedLinesSummed ==
    [][\A r \in Requests :
          (Finishing(r) /\ sessions[r].op = "place_order")
          => LET items == sessions[r].data.items
                 read == sessions[r].snap.variants
                 fits == \A v \in DOMAIN read :
                            Requested(items, v) <= read[v].stock_quantity
             IN  /\ sessions'[r].outcome = "ok" <=> fits
                 /\ fits => /\ \A v \in DOMAIN read :
                                  Requested(items, v) > 0
                                  => variants'[v].stock_quantity
                                        = read[v].stock_quantity - Requested(items, v)
                            /\ inventory_log' = inventory_log \o LineEntries(items)]_vars

(* a checkout with two lines of variant 1 was accepted and took both *)
(* quantities, and another was rejected for their sum                *)
C30_Witness ==
    \E r, q \in Requests :
        /\ Done(r, "place_order") /\ sessions[r].outcome = "ok"
        /\ Requested(sessions[r].data.items, 1) = 2
        /\ sessions[r].snap.variants[1].stock_quantity = 2
        /\ Done(q, "place_order") /\ sessions[q].error = "insufficient_stock"
        /\ Requested(sessions[q].data.items, 1)
                > sessions[q].snap.variants[1].stock_quantity
        /\ sessions[q].data.items[1].quantity
                <= sessions[q].snap.variants[1].stock_quantity

-----------------------------------------------------------------------------
(* Addresses of one user, under either isolation level *)

InitAddresses ==
    \E level \in IsolationLevels :
        InitAt(SeedCoupon, 1, [DefaultEngine EXCEPT !.isolation_level = level])

AddressCreates == [label : {1}, is_default : BOOLEAN]

AddressUpdates == {[label |-> 2], [is_default |-> TRUE], [is_default |-> FALSE]}

NextAddresses ==
    \E r \in 1..MaxAddressRequests :
        \/ \E request \in AddressCreates : CreateAddressBegin(r, 1, request)
        \/ \E a \in 1..(Len(addresses) + 1), request \in AddressUpdates :
                UpdateAddressBegin(r, 1, a, request)
        \/ \E a \in 1..(Len(addresses) + 1) : SetDefaultAddressBegin(r, 1, a)
        \/ UnsetDefaults(r)
        \/ AddressFinish(r)
        \/ AddressDeadlock(r)

SpecAddresses == InitAddresses /\ [][NextAddresses]_vars

(* C28: no user has more than one address marked default *)
C28_OneDefaultAddress ==
    \A u \in UserIds :
        Cardinality({a \in DOMAIN addresses :
                        addresses[a].user_id = u /\ addresses[a].is_default}) <= 1

-----------------------------------------------------------------------------
(* Lock order of concurrent checkouts, with and without autoflush *)

MaxLockRequests == 2

InitLocks ==
    \E autoflush \in BOOLEAN :
        InitAt(SeedCoupon, 1, [DefaultEngine EXCEPT !.autoflush = autoflush])

LockCarts ==
    {[items |-> <<CartLine(1, 1, 1), CartLine(2, 2, 1)>>, coupon_code |-> code] :
        code \in {None, 1}}
    \cup {[items |-> <<CartLine(2, 2, 1), CartLine(1, 1, 1)>>, coupon_code |-> None]}

NextLocks ==
    \E r \in 1..MaxLockRequests :
        \/ \E user_id \in UserIds, data \in LockCarts : PlaceOrderBegin(r, user_id, data)
        \/ PlaceOrderUpdateRow(r)
        \/ PlaceOrderEnd(r)
        \/ PlaceOrderDeadlock(r)

SpecLocks == InitLocks /\ [][NextLocks]_vars

WaitCycle == \E r, q \in Requests : WaitsFor(r, q) /\ WaitsFor(q, r)

VariantRows(rows) == {row \in rows : row.table = "product_variants"}

(* C23: a checkout writes the variant rows it debits in ascending id order *)
(* and its coupon row after all of them, and no two checkouts ever wait    *)
(* for a row that the other holds                                          *)
C23_AscendingLockOrder ==
    /\ [][\A r \in Requests :
            (Pending(r) /\ sessions'[r].data.flushed = sessions[r].data.flushed + 1)
            => /\ NextRow(r).table = "product_variants"
                    => \A held \in VariantRows(RowsLocked(r)) : held.id < NextRow(r).id
               /\ NextRow(r).table = "coupons"
                    => VariantRows({Statements(r)[i] : i \in 1..Len(Statements(r))})
                            \subseteq RowsLocked(r)]_vars
    /\ []~WaitCycle

====
